---------------------------- MODULE Spec2Model ----------------------------
(* profile.py: a CloudLab profile that requests 1..16 "nvidiagh" nodes,   *)
(* joins them with a LAN when there is more than one, and attaches the    *)
(* bootstrap script SETUP_BASH to each node.                              *)
(*                                                                        *)
(* Spec       one run of profile.py, from verifyParameters to the print.  *)
(* SpecRerun  SETUP_BASH on one node, run and re-run.                     *)
(* SpecBoot   SETUP_BASH on the nodes of a request, one run per node,     *)
(*            interleaved.                                                *)
EXTENDS Integers, Sequences, FiniteSets, TLC

VARIABLES
  at,            \* position of the run in profile.py
  pnodes_value,  \* pnodes.value
  pimage_value,  \* pimage.value
  req,           \* the request: its resources, in the order they were added
  nodes,         \* the list nodes: references (indices) into req
  i,             \* the loop variable of line 135, which outlives its loop
  lan,           \* the variable lan: a reference into req, 0 while unbound
  stdout,        \* the documents printed so far
  image,         \* what the disk image ships: [smi, docker]
  host           \* the state of SETUP_BASH on each booted node

vars == <<at, pnodes_value, pimage_value, req, nodes, i, lan, stdout, image, host>>
profile_vars == <<at, pnodes_value, pimage_value, req, nodes, i, lan, stdout>>
boot_vars == <<image, host>>

---------------------------------------------------------------------------
(* Parameters, lines 27-40 *)

MinNodes == 1
MaxNodes == 16
\* how far beyond [MinNodes, MaxNodes] the submitted node counts range
Excess == 2

DefaultImage == "urn:publicid:IDN+utah.cloudlab.us+image+Canonical:ubuntu-22.04"
ImageURNs == {DefaultImage, "urn:publicid:IDN+utah.cloudlab.us+image+custom:gpu"}

NodeCounts == (MinNodes - Excess) .. (MaxNodes + Excess)

Unbound == -1

\* the range the parameter "nodes" declares: min=1, max=16
InRangeNoMin(v) == v <= MaxNodes
InRange(v) == v >= MinNodes /\ v <= MaxNodes

---------------------------------------------------------------------------
(* add_node, lines 114-132 *)

SETUP_BASH == "SETUP_BASH"
LSBLK == "echo '[INFO] Local NVMe:'; lsblk -o NAME,SIZE,MODEL || true"
SYSCTL == "99-dl-tuning.conf; sudo sysctl --system || true"

\* f"node{idx+1}": the decimal rendering of idx+1 is one-to-one, kept as the number
NodeName(idx) == <<"node", idx + 1>>

\* f"if{i}"
IfName(k) == <<"if", k>>

Services ==
  << [kind |-> "install", common |-> TRUE, script |-> SETUP_BASH],
     [kind |-> "execute", shell |-> "bash", command |-> LSBLK],
     [kind |-> "execute", shell |-> "bash", command |-> SYSCTL] >>

add_node_first_differs(idx) ==
  [ kind |-> "node",
    name |-> NodeName(idx),
    hardware_type |-> IF idx = 0 THEN "nvidiagh" ELSE "pc",
    disk_image |-> pimage_value,
    services |-> Services,
    interfaces |-> << >> ]

add_node(idx) ==
  [ kind |-> "node",
    name |-> NodeName(idx),
    hardware_type |-> "nvidiagh",
    disk_image |-> pimage_value,
    services |-> Services,
    interfaces |-> << >> ]

Link(name) ==
  [ kind |-> "link", name |-> name, best_effort |-> FALSE,
    vlan_tagging |-> FALSE, interfaces |-> << >> ]

---------------------------------------------------------------------------
(* The run of profile.py *)

Init ==
  /\ at = "verify"
  /\ pnodes_value \in NodeCounts
  /\ pimage_value \in ImageURNs
  /\ req = << >>
  /\ nodes = << >>
  /\ i = Unbound
  /\ lan = 0
  /\ stdout = << >>
  /\ image = [smi |-> FALSE, docker |-> FALSE]
  /\ host = << >>

\* line 42: pc.verifyParameters() ends the run when a bound parameter is
\* outside what it declares
verifyParameters ==
  /\ at = "verify"
  /\ at' = IF InRange(pnodes_value) THEN "nodes" ELSE "rejected"
  /\ UNCHANGED <<pnodes_value, pimage_value, req, nodes, i, lan, stdout>>

\* range(pnodes.value), line 135
LoopRangeShort == 0 .. (pnodes_value - 2)
LoopRange == 0 .. (pnodes_value - 1)

\* lines 135-136: one iteration of the loop; req.RawPC adds the node to req
NodeLoop ==
  /\ at = "nodes"
  /\ Len(nodes) \in LoopRange
  /\ i' = Len(nodes)
  /\ req' = Append(req, add_node(i'))
  /\ nodes' = Append(nodes, Len(req'))
  /\ UNCHANGED <<at, pnodes_value, pimage_value, lan, stdout>>

\* line 139
LanWantedFromOne == pnodes_value >= 1
LanWanted == pnodes_value > 1

\* the loop of line 135 is exhausted; lines 139-142
NodeLoopEnd ==
  /\ at = "nodes"
  /\ Len(nodes) \notin LoopRange
  /\ IF LanWanted
       THEN /\ req' = Append(req, [Link("lan") EXCEPT !.best_effort = TRUE,
                                                       !.vlan_tagging = TRUE])
            /\ lan' = Len(req')
            /\ at' = "lan"
       ELSE /\ at' = "print"
            /\ UNCHANGED <<req, lan>>
  /\ UNCHANGED <<pnodes_value, pimage_value, nodes, i, stdout>>

\* the number line 144 puts in the name of the interface of the k-th node of nodes
IfIndexOwn(k) == k - 1
IfIndex(k) == i

\* lines 143-145: one iteration, for the first node of nodes that has no interface yet
LanLoop ==
  /\ at = "lan"
  /\ \E k \in 1 .. Len(nodes) :
       /\ Len(req[lan].interfaces) = k - 1
       /\ LET n == nodes[k]
              iface == [node |-> req[n].name, name |-> IfName(IfIndex(k))]
          IN req' = [req EXCEPT ![n].interfaces = Append(@, iface),
                                ![lan].interfaces = Append(@, iface)]
  /\ UNCHANGED <<at, pnodes_value, pimage_value, nodes, i, lan, stdout>>

LanLoopEnd ==
  /\ at = "lan"
  /\ Len(req[lan].interfaces) = Len(nodes)
  /\ at' = "print"
  /\ UNCHANGED <<pnodes_value, pimage_value, req, nodes, i, lan, stdout>>

\* line 147
printRequestRSpecEarly ==
  /\ at \in {"nodes", "lan", "print"}
  /\ stdout' = Append(stdout, req)
  /\ at' = IF at = "print" THEN "done" ELSE at
  /\ UNCHANGED <<pnodes_value, pimage_value, req, nodes, i, lan>>

printRequestRSpec ==
  /\ at = "print"
  /\ stdout' = Append(stdout, req)
  /\ at' = "done"
  /\ UNCHANGED <<pnodes_value, pimage_value, req, nodes, i, lan>>

Next ==
  \/ verifyParameters /\ UNCHANGED boot_vars
  \/ NodeLoop /\ UNCHANGED boot_vars
  \/ NodeLoopEnd /\ UNCHANGED boot_vars
  \/ LanLoop /\ UNCHANGED boot_vars
  \/ LanLoopEnd /\ UNCHANGED boot_vars
  \/ printRequestRSpec /\ UNCHANGED boot_vars

Spec == Init /\ [][Next]_vars

---------------------------------------------------------------------------
(* SETUP_BASH, lines 45-112, under "set -euxo pipefail" (line 46).         *)
(* A command is named by the line it starts on.                            *)

FirstLine == 48
EndOfScript == 112

\* echo of a fixed message
Echoes == {48, 58, 61, 66, 79, 94, 111}
\* "if" tests: command -v nvidia-smi (57, 92), ! command -v docker (65)
Tests == {57, 65, 92}
\* every other command, each able to fail
Commands == {51, 52, 59, 67, 68, 69, 70, 73, 74, 75, 80, 81, 82, 85, 86, 88, 89, 93, 95}
\* the Docker installation, lines 66-75, inside the "if" of line 65
DockerLines == {66, 67, 68, 69, 70, 73, 74, 75}

\* the command is followed by "|| true"
OrTrueWithout89(l) == l \in {59, 67, 75, 93, 95}
OrTrue(l) == l \in {59, 67, 75, 89, 93, 95}

\* the command is a member other than the last of the && list of lines 80-84;
\* set -e ignores its failure, and the rest of the list is skipped
AndListInnerNone(l) == FALSE
AndListInner(l) == l \in {80, 81}
AfterAndList == 85

\* the command expands a variable the script never sets ($USER, line 75):
\* under set -u the shell exits when it is unset, whatever follows the command
ExpandsEnv(l) == l = 75

\* the line that follows line l when nothing branches
Following(l) ==
  CASE l = 48 -> 51  [] l = 51 -> 52  [] l = 52 -> 57
    [] l = 58 -> 59  [] l = 59 -> 65  [] l = 61 -> 65
    [] l = 66 -> 67  [] l = 67 -> 68  [] l = 68 -> 69  [] l = 69 -> 70
    [] l = 70 -> 73  [] l = 73 -> 74  [] l = 74 -> 75  [] l = 75 -> 79
    [] l = 79 -> 80  [] l = 80 -> 81  [] l = 81 -> 82  [] l = 82 -> 85
    [] l = 85 -> 86  [] l = 86 -> 88  [] l = 88 -> 89  [] l = 89 -> 92
    [] l = 93 -> 94  [] l = 94 -> 95  [] l = 95 -> 111
    [] l = 111 -> EndOfScript

\* the test of an "if" line, on a host in state h with disk image img
TestDockerAlwaysMissing(l, h, img) ==
  CASE l = 57 -> img.smi
    [] l = 65 -> TRUE
    [] l = 92 -> img.smi
TestHolds(l, h, img) ==
  CASE l = 57 -> img.smi
    [] l = 65 -> ~h.docker
    [] l = 92 -> img.smi

\* where an "if" line goes: into its body, or to its else / past its fi
Branch(l, taken) ==
  CASE l = 57 -> IF taken THEN 58 ELSE 61
    [] l = 65 -> IF taken THEN 66 ELSE 79
    [] l = 92 -> IF taken THEN 93 ELSE 111

\* how the command on line l can end
Outcomes(l) ==
  IF l \in Commands
    THEN {"ok", "fail"} \cup (IF ExpandsEnv(l) THEN {"unbound"} ELSE {})
    ELSE {"ok"}

\* a host on which no run has started; docker is what the image ships
Fresh(img) ==
  [ state |-> "idle", pc |-> FirstLine, docker |-> img.docker,
    dockerAtStart |-> img.docker, prev |-> 0, result |-> "ok",
    ranToolkit |-> FALSE, before |-> "none" ]

\* the start of a run: bash at the first command of the script
Started(h) ==
  [h EXCEPT !.state = "run", !.pc = FirstLine, !.dockerAtStart = h.docker,
            !.prev = 0, !.result = "ok", !.ranToolkit = FALSE,
            !.before = IF h.state = "idle" THEN "none" ELSE h.state]

Advance(h, l) ==
  IF l = EndOfScript THEN [h EXCEPT !.state = "done", !.pc = l]
                     ELSE [h EXCEPT !.pc = l]

\* one line of the script on a host in state h, the line ending with outcome o
Exec(h, img, o) ==
  LET l == h.pc
      ran == [h EXCEPT !.prev = l, !.result = o,
                       !.docker = IF l = 74 /\ o = "ok" THEN TRUE ELSE @,
                       !.ranToolkit = IF l = 86 THEN TRUE ELSE @]
  IN  CASE l \in Tests -> Advance([h EXCEPT !.prev = l, !.result = "ok"],
                                  Branch(l, TestHolds(l, h, img)))
        [] l \in Echoes -> Advance(ran, Following(l))
        [] OTHER ->
             CASE o = "ok" -> Advance(ran, Following(l))
               [] o = "unbound" -> [ran EXCEPT !.state = "aborted"]
               [] OTHER ->
                    IF OrTrue(l) THEN Advance(ran, Following(l))
                    ELSE IF AndListInner(l) THEN Advance(ran, AfterAndList)
                    ELSE [ran EXCEPT !.state = "aborted"]

\* every state one step of a host's own run can lead to
ScriptSucc(h, img) == {Exec(h, img, o) : o \in Outcomes(h.pc)}

---------------------------------------------------------------------------
(* The request a completed run of profile.py leaves, lines 134-145 *)

FinalIfaces(n, N) ==
  IF N > 1 THEN << [node |-> NodeName(n - 1), name |-> IfName(N - 1)] >> ELSE << >>
FinalNodes(N) ==
  [n \in 1 .. N |-> [add_node(n - 1) EXCEPT !.interfaces = FinalIfaces(n, N)]]
FinalLan(N) ==
  [Link("lan") EXCEPT !.best_effort = TRUE, !.vlan_tagging = TRUE,
                      !.interfaces = [n \in 1 .. N |-> FinalIfaces(n, N)[1]]]
FinalReq(N) ==
  IF N > 1 THEN Append(FinalNodes(N), FinalLan(N)) ELSE FinalNodes(N)

\* the nodes of the printed request, allocated with the image, none booted yet
Allocated(N) ==
  /\ at = "done"
  /\ pnodes_value = N
  /\ pimage_value = DefaultImage
  /\ req = FinalReq(N)
  /\ nodes = [n \in 1 .. N |-> n]
  /\ i = N - 1
  /\ lan = (IF N > 1 THEN N + 1 ELSE 0)
  /\ stdout = << req >>
  /\ image \in [smi : BOOLEAN, docker : BOOLEAN]
  /\ host = [n \in 1 .. N |-> Fresh(image)]

---------------------------------------------------------------------------
(* SETUP_BASH on the allocated nodes *)

\* the nodes that boot together
BootNodes == 2

\* line 118: every node carries the script and runs it on its own
ReadyInTurn(n) ==
  /\ host[n].state = "run"
  /\ n > 1 => host[n - 1].state \in {"done", "aborted"}
Ready(n) == host[n].state = "run"

Start(n) ==
  /\ host[n].state = "idle"
  /\ host' = [host EXCEPT ![n] = Started(host[n])]
  /\ UNCHANGED <<image, profile_vars>>

Step(n) ==
  /\ Ready(n)
  /\ \E s \in ScriptSucc(host[n], image) : host' = [host EXCEPT ![n] = s]
  /\ UNCHANGED <<image, profile_vars>>

\* the script is run again on a node where a run has ended
Rerun(n) ==
  /\ host[n].state \in {"done", "aborted"}
  /\ host' = [host EXCEPT ![n] = Started(host[n])]
  /\ UNCHANGED <<image, profile_vars>>

InitBoot == \E N \in 1 .. BootNodes : Allocated(N)

NextBoot ==
  \/ \E n \in DOMAIN host : Start(n)
  \/ \E n \in DOMAIN host : Step(n)

SpecBoot == InitBoot /\ [][NextBoot]_vars

InitRerun == Allocated(1)

NextRerun ==
  \/ \E n \in DOMAIN host : Start(n)
  \/ \E n \in DOMAIN host : Step(n)
  \/ \E n \in DOMAIN host : Rerun(n)

SpecRerun == InitRerun /\ [][NextRerun]_vars

---------------------------------------------------------------------------
(* What a request holds *)

IsNode(r) == r.kind = "node"
IsLink(r) == r.kind = "link"
NodesOf(d) == SelectSeq(d, IsNode)
LinksOf(d) == SelectSeq(d, IsLink)
Range(s) == {s[x] : x \in DOMAIN s}
Printed == Range(stdout)

\* what a node is configured with, its name left out; an interface counts by
\* its local name
IfNames(r) == [x \in DOMAIN r.interfaces |-> r.interfaces[x].name]
Config(r) ==
  [ hardware_type |-> r.hardware_type, disk_image |-> r.disk_image,
    services |-> r.services, ifnames |-> IfNames(r) ]

---------------------------------------------------------------------------
(* Claims about the run of profile.py, checked under Spec *)

\* C1: every printed request holds exactly pnodes.value node descriptors, with
\* pnodes.value in 1..16: node1 .. nodeN, one per index 0..N-1, in that order.
C1_ExactlyNNodes ==
  \A d \in Printed :
    /\ pnodes_value \in 1 .. 16
    /\ Len(NodesOf(d)) = pnodes_value
    /\ \A x \in 1 .. pnodes_value : NodesOf(d)[x].name = <<"node", x>>

C1_Witness ==
  /\ at = "done"
  /\ pnodes_value = 16
  /\ Len(stdout) = 1
  /\ Len(NodesOf(stdout[1])) = 16

\* C2: a printed request holds a LAN iff pnodes.value > 1; the LAN then holds
\* exactly pnodes.value interfaces, exactly one owned by each node, and with
\* pnodes.value = 1 no node has an interface.
C2_LanIffMany ==
  \A d \in Printed :
    /\ Len(LinksOf(d)) = (IF pnodes_value > 1 THEN 1 ELSE 0)
    /\ pnodes_value > 1 =>
         LET l == LinksOf(d)[1] IN
         /\ Len(l.interfaces) = pnodes_value
         /\ \A x \in 1 .. Len(NodesOf(d)) :
              /\ Cardinality({y \in 1 .. Len(l.interfaces) :
                                l.interfaces[y].node = NodesOf(d)[x].name}) = 1
              /\ Len(NodesOf(d)[x].interfaces) = 1
              /\ NodesOf(d)[x].interfaces[1] \in Range(l.interfaces)
    /\ pnodes_value = 1 =>
         \A x \in 1 .. Len(NodesOf(d)) : NodesOf(d)[x].interfaces = << >>

C2_Witness ==
  /\ at = "done"
  /\ pnodes_value = 3
  /\ Len(stdout) = 1
  /\ Len(LinksOf(stdout[1])) = 1
  /\ Len(LinksOf(stdout[1])[1].interfaces) = 3

\* C3: with a node count outside [1,16] the run stops at verifyParameters:
\* no node, no LAN and no document is ever made.
C3_OutOfRangeRejected ==
  (pnodes_value < 1 \/ pnodes_value > 16) =>
    /\ at \in {"verify", "rejected"}
    /\ req = << >>
    /\ nodes = << >>
    /\ lan = 0
    /\ stdout = << >>

C3_Witness ==
  /\ at = "rejected"
  /\ pnodes_value \in {0, 17}

\* C6: every node of the request has hardware type nvidiagh, the disk image
\* pimage.value and the same three services (the SETUP_BASH install script
\* first), and in a printed request any two nodes differ in their names only.
C6_IdenticalNodes ==
  /\ \A x \in 1 .. Len(NodesOf(req)) :
       LET r == NodesOf(req)[x] IN
       /\ r.hardware_type = "nvidiagh"
       /\ r.disk_image = pimage_value
       /\ Len(r.services) = 3
       /\ r.services[1] = [kind |-> "install", common |-> TRUE, script |-> SETUP_BASH]
       /\ r.services = NodesOf(req)[1].services
  /\ \A d \in Printed :
       \A x, y \in 1 .. Len(NodesOf(d)) :
         /\ Config(NodesOf(d)[x]) = Config(NodesOf(d)[y])
         /\ x # y => NodesOf(d)[x].name # NodesOf(d)[y].name

C6_Witness ==
  /\ at = "done"
  /\ pnodes_value = 4
  /\ pimage_value # DefaultImage
  /\ Len(NodesOf(stdout[1])) = 4

\* what is complete at each position of the run
NodesComplete ==
  /\ Len(nodes) = pnodes_value
  /\ Len(NodesOf(req)) = pnodes_value
  /\ \A x \in 1 .. Len(nodes) : Len(req[nodes[x]].services) = 3
LanComplete ==
  IF pnodes_value > 1
    THEN /\ lan # 0
         /\ Len(req[lan].interfaces) = pnodes_value
    ELSE lan = 0 /\ LinksOf(req) = << >>
Order ==
  { <<"verify", "nodes">>, <<"verify", "rejected">>, <<"nodes", "lan">>,
    <<"nodes", "print">>, <<"lan", "print">>, <<"print", "done">> }

\* C7: a run is one pass: verify, then the nodes, then the LAN if any, then the
\* print. The document is printed once, when every node and the LAN (if any)
\* is complete, it is the request as it stands, and nothing changes afterwards.
C7_SinglePass ==
  /\ [](/\ Len(stdout) <= 1
        /\ at \in {"verify", "rejected"} => req = << >>
        /\ at = "nodes" => LinksOf(req) = << >>
        /\ at \in {"lan", "print", "done"} => NodesComplete
        /\ at \in {"print", "done"} => LanComplete
        /\ Len(stdout) = 1 <=> at = "done"
        /\ at = "done" => stdout[1] = req)
  /\ [][/\ at' # at => <<at, at'>> \in Order
        /\ Len(stdout) > 0 => req' = req /\ stdout' = stdout]_vars

C7_Witness ==
  /\ at = "done"
  /\ pnodes_value = 2
  /\ Len(stdout) = 1
  /\ stdout[1] = req
  /\ Len(req) = 3

\* C10: with pnodes.value > 1 every node of a printed request has exactly one
\* interface, every interface is named "if" followed by pnodes.value - 1, and
\* the interfaces of the LAN are owned by node1 .. nodeN, one each.
C10_LeftoverIndex ==
  \A d \in Printed :
    pnodes_value > 1 =>
      /\ i = pnodes_value - 1
      /\ \A x \in 1 .. Len(NodesOf(d)) :
           /\ Len(NodesOf(d)[x].interfaces) = 1
           /\ NodesOf(d)[x].interfaces[1].name = <<"if", pnodes_value - 1>>
      /\ LET l == LinksOf(d)[1] IN
         /\ Len(l.interfaces) = pnodes_value
         /\ \A y \in 1 .. Len(l.interfaces) :
              /\ l.interfaces[y].name = <<"if", pnodes_value - 1>>
              /\ l.interfaces[y].node = <<"node", y>>

C10_Witness ==
  /\ at = "done"
  /\ pnodes_value = 2
  /\ Len(stdout) = 1
  /\ NodesOf(stdout[1])[1].interfaces[1].name = <<"if", 1>>
  /\ NodesOf(stdout[1])[2].interfaces[1].name = <<"if", 1>>
  /\ NodesOf(stdout[1])[1].name # NodesOf(stdout[1])[2].name

---------------------------------------------------------------------------
(* Claims about SETUP_BASH, checked under SpecRerun and SpecBoot *)

Hosts == {host[n] : n \in DOMAIN host}

OwnSucc(h) ==
  CASE h.state = "idle" -> {Started(h)}
    [] h.state = "run" -> ScriptSucc(h, image)
    [] OTHER -> {}

\* C8: under any interleaving a step changes the state of one node only, to a
\* state that follows from that node's own state, and every step a node's own
\* state allows can be taken whatever the state of the other nodes is.
C8_NodesIndependent ==
  /\ [](\A n \in DOMAIN host : \A s \in OwnSucc(host[n]) :
          ENABLED (NextBoot /\ host' = [host EXCEPT ![n] = s]))
  /\ [][\A n \in DOMAIN host :
          host'[n] # host[n] =>
            /\ host'[n] \in OwnSucc(host[n])
            /\ \A m \in DOMAIN host \ {n} : host'[m] = host[m]]_vars

C8_Witness ==
  /\ Len(host) >= 2
  /\ host[1].state = "aborted"
  /\ host[2].state = "done"

=============================================================================
